---- MODULE Spec2Model ----
(***************************************************************************)
(* A model of tansy: parameter-driven slash commands                        *)
(* (src/tansy/slash_commands.py) and the orjson transport patch             *)
(* (src/tansy/speedup/orjson_serialize.py).                                 *)
(*                                                                          *)
(* Python values are modelled as strings, Python objects as records, an     *)
(* ordered dict as a sequence of entries (insertion order, an existing key  *)
(* is replaced in place), a raised exception as its message: a sequence of  *)
(* strings, <<>> when nothing was raised.                                   *)
(***************************************************************************)
EXTENDS Integers, Sequences, FiniteSets, TLC

VARIABLES
    \* ---- the command object (TansySlashCommand) and its callback
    sig,                \* the callback's parameters after ctx/self, as inspect.signature gives them
    describes,          \* callback.__tansy_describe__: option names with a description override
    callback,           \* self.callback: a reference to a function object, or a partial around one
    funcs,              \* the heap of function objects: __defaults__ and __kwdefaults__ of each
    options,            \* self.options
    parameters,         \* self.parameters (ordered dict keyed by option name)
    inspect_signature,  \* self._inspect_signature
    results,            \* what each _parse_parameters call raised (<<>>: returned), in call order
    builtOptions,       \* self.options as the first _parse_parameters call left it
    builtParameters,    \* self.parameters as the first _parse_parameters call left it
    given,              \* the last _parse_parameters call: whether it reached _overwrite_defaults, the callable
                        \* it handed over and that callable's function object as it was before the call
    \* ---- one call of call_callback
    kwargs,             \* ctx.kwargs: the incoming keyword arguments, in iteration order
    pc,                 \* where call_callback is: idle, loop, await (in a converter), called, raised
    idx,                \* the position of the for loop in ctx.kwargs
    new_kwargs,         \* new_kwargs (ordered dict)
    events,             \* converter starts and ends and the callback call, in the order they happen
    delivered,          \* the keyword arguments the callback was called with
    invokeRaised,       \* what call_callback raised
    \* ---- one use of _get_converter and of the converter it returns
    convIn,             \* the anno argument
    convParam,          \* the name argument
    convDone,           \* whether _get_converter was called
    convOut,            \* what it returned or raised
    callArgs,           \* the (ctx, value) the returned converter was called with, <<>> before
    callOut,            \* what that call returned or raised
    \* ---- TansySlashCommand.subcommand
    base,               \* the base command
    decorators,         \* the decorators subcommand() returned: the variables each closes over
    made,               \* each application of a decorator: the callback and what it gave
    \* ---- tansy.speedup.orjson_serialize
    orjsonImportable,   \* whether "import orjson" succeeded when the module was loaded
    httpClientClass,    \* the attributes of the host's HTTPClient class
    patchCalls,         \* what each patch() call raised
    clients             \* the HTTP clients constructed so far

cmdVars == <<sig, describes, callback, funcs, options, parameters, inspect_signature,
             results, builtOptions, builtParameters, given>>

invokeVars == <<kwargs, pc, idx, new_kwargs, events, delivered, invokeRaised>>

convVars == <<convIn, convParam, convDone, convOut, callArgs, callOut>>

subVars == <<base, decorators, made>>

patchVars == <<orjsonImportable, httpClientClass, patchCalls, clients>>

vars == <<cmdVars, invokeVars, convVars, subVars, patchVars>>

\* ------------------------------------------------------------------ bounds

\* the longest callback signature (parameters after ctx/self)
MaxParams == 3
\* how many times _parse_parameters is called on one command
MaxRuns == 3

\* ------------------------------------------------------------------ values

MISSING == "ipy.MISSING"
EMPTY == "Parameter.empty"
NONE == "None"
PARAM_INFO == "ParamInfo"
NoDescription == "No Description Set"

ParamNames == <<"a", "b", "c", "d">>

NoError == <<>>

\* ------------------------------------------------------------------ ordered dict

DictHas(d, k) == \E i \in 1..Len(d) : d[i].name = k

DictGet(d, k) == d[CHOOSE i \in 1..Len(d) : d[i].name = k]

DictSet(d, v) ==
    IF DictHas(d, v.name)
    THEN [i \in 1..Len(d) |-> IF d[i].name = v.name THEN v ELSE d[i]]
    ELSE Append(d, v)

\* ------------------------------------------------------------------ converters

\* What a converter reference (a marker's converter, or an annotation) is, as far as
\* _get_converter looks at it.
\*   annotated: typing.Annotated[...] around the object described by the other fields
\*   shape:     what kind of Python object it is
\*   argc:      for a function or method, the positional parameters its def declares
\*              (self included); for a builtin, the parameters of its signature
\*   async:     whether calling it gives a coroutine
ConvShapes == {"converter_object", "function", "bound_method", "builtin", "class",
               "callable_instance", "uncallable", "none"}

NoConvRef == [annotated |-> FALSE, shape |-> "none", argc |-> 0, async |-> FALSE]
IntClass == [annotated |-> FALSE, shape |-> "class", argc |-> 1, async |-> FALSE]

IsConverter(anno) == anno.shape = "converter_object"
IsRoutine(anno) == anno.shape \in {"function", "bound_method", "builtin", "opaque_builtin"}
HasCode(anno) == anno.shape \in {"function", "bound_method"}
IsCallable(anno) == anno.shape \notin {"uncallable", "none"}
ObjectName(anno) == anno.shape

\* utils.get_from_anno_type: the object inside an Annotated[...]
get_from_anno_type(anno) == [anno EXCEPT !.annotated = FALSE]

\* What _get_converter returns: kind "none" is None.
NoConverter == [kind |-> "none"]

Returned(conv) == [raised |-> NoError, value |-> conv]
Raised(msg) == [raised |-> msg, value |-> NoConverter]

ZeroArgsMsg(anno, name) ==
    <<ObjectName(anno), " for ", name, " has 0", " positional arguments, which is unsupported.">>

TooManyArgsMsg(anno, name) ==
    <<ObjectName(anno), " for ", name, " has more than 2", " positional arguments, which is unsupported.">>

NoSignatureMsg == <<"ValueError", "no signature found for builtin">>

\* anno.__code__.co_argcount: the positional parameters of the def (for a bound method,
\* of the function it wraps, self included)
CoArgcount(anno) == anno.argc

\* len(inspect.signature(anno).parameters.values())
SignatureParams(anno) == anno.argc

NumParams(anno) == IF HasCode(anno) THEN CoArgcount(anno) ELSE SignatureParams(anno)

GetConverterUnwrapped(anno, name) ==
    IF IsConverter(anno) THEN Returned([kind |-> "convert_method", fn |-> anno])
    ELSE IF anno.shape = "opaque_builtin" THEN Raised(NoSignatureMsg)
    ELSE IF IsRoutine(anno) THEN
        CASE NumParams(anno) = 2 -> Returned([kind |-> "as_is", fn |-> anno])
          [] NumParams(anno) = 1 -> Returned([kind |-> "_one_arg_convert", fn |-> anno])
          [] NumParams(anno) = 0 -> Raised(ZeroArgsMsg(anno, name))
          [] OTHER -> Raised(TooManyArgsMsg(anno, name))
    ELSE Returned(NoConverter)

_get_converter(anno, name) ==
    GetConverterUnwrapped(IF anno.annotated THEN get_from_anno_type(anno) ELSE anno, name)

\* ------------------------------------------------------------------ annotations and markers

\* utils.get_option / utils.is_optional over the annotations of the model
Annotations == {"int", "Optional[int]", "unknown"}

OptionTypeResolves(annotation) == annotation # "unknown"
get_option(annotation) == "INTEGER"
is_optional(annotation) == annotation = "Optional[int]"
AnnotationConvRef(annotation) == IntClass

\* ParamInfo.generate_option: the option a marker declares
generate_option(param) ==
    [name |-> param.mname,
     type |-> IF param.utype THEN "INTEGER" ELSE NONE,
     required |-> (param.mdefault = MISSING),
     description |-> NoDescription]

\* ipy.SlashCommandOption(name=..., type=...)
SlashCommandOption(name, type) ==
    [name |-> name, type |-> type, required |-> TRUE, description |-> NoDescription]

\* attrs.validate(option): the option's own field validators (name charset and length)
ValidOptionNames == {"a", "b", "c", "d", "z"}
OptionValid(option) == option.name \in ValidOptionNames

\* ------------------------------------------------------------------ callables

IsPositional(param) == param.kind = "POSITIONAL_OR_KEYWORD"
IsKeywordOnly(param) == param.kind = "KEYWORD_ONLY"

\* the default a parameter carries in the def statement
DeclaredDefault(param) == IF param.marker THEN PARAM_INFO ELSE param.pdefault

Positionals(s) == SelectSeq(s, IsPositional)

SigParam(s, name) == s[CHOOSE i \in 1..Len(s) : s[i].name = name]

\* tuple(...) of the values of a sequence of [name, value] entries
Values(entries) == [i \in 1..Len(entries) |-> entries[i].value]

KwMapping(entries) ==
    [n \in {entries[i].name : i \in 1..Len(entries)} |->
        (CHOOSE e \in {entries[i] : i \in 1..Len(entries)} : e.name = n).value]

\* Python truthiness of a default value
Truthy(v) == v \notin {NONE, MISSING, "0", ""}

\* The default Python uses for an omitted argument: __defaults__ belongs to the last
\* positional parameters, __kwdefaults__ is looked up by name. EMPTY: none (TypeError).
IntrinsicDefault(fn, s, name) ==
    LET p == SigParam(s, name)
        pos == Positionals(s)
        n == Len(pos)
        m == Len(fn.defaults)
        i == CHOOSE j \in 1..n : pos[j].name = name
    IN  IF IsPositional(p)
        THEN (IF i > n - m THEN fn.defaults[i - (n - m)] ELSE EMPTY)
        ELSE IF IsKeywordOnly(p) /\ name \in DOMAIN fn.kwdefaults THEN fn.kwdefaults[name]
        ELSE EMPTY

\* the function object a def statement with signature s creates
IsDefaulted(param) == DeclaredDefault(param) # EMPTY
IsDefaultedPositional(param) == IsPositional(param) /\ IsDefaulted(param)

DefFunction(s) ==
    [defaults |-> [i \in 1..Len(SelectSeq(s, IsDefaultedPositional)) |->
                      DeclaredDefault(SelectSeq(s, IsDefaultedPositional)[i])],
     kwdefaults |-> [n \in {s[i].name : i \in {j \in 1..Len(s) :
                                IsKeywordOnly(s[j]) /\ IsDefaulted(s[j])}} |->
                        DeclaredDefault(SigParam(s, n))]]

\* copy.copy: a function object is copied as itself (copy treats functions as atomic);
\* a functools.partial is a new partial around the same function object.
copy_copy(func) == func

\* the function object whose defaults a callable uses
FuncOf(func) == func.func

\* ------------------------------------------------------------------ _overwrite_defaults

Entry(name, value) == [name |-> name, value |-> value]

_overwrite_defaults(heap, func, defaults, params) ==
    LET func_copy == copy_copy(func)
        func_to_parse == FuncOf(func_copy)
        old_kwarg_defaults == heap[func_to_parse].kwdefaults
        IsKwDefault(e) ==
            \/ (e.name \in DOMAIN old_kwarg_defaults /\ Truthy(old_kwarg_defaults[e.name]))
            \/ SigParam(params, e.name).kind = "KEYWORD_ONLY"
        IsPosDefault(e) == ~IsKwDefault(e)
        new_defaults == SelectSeq(defaults, IsPosDefault)
        new_kwarg_defaults == SelectSeq(defaults, IsKwDefault)
    IN  [funcs |-> [heap EXCEPT ![func_to_parse] =
                        [defaults |-> Values(new_defaults),
                         kwdefaults |-> KwMapping(new_kwarg_defaults)]],
         callback |-> func_copy]

\* TansySlashCommandParameter.optional
optional(p) == p.default # MISSING

DefaultEntry(p) == Entry(p.argument_name, p.default)

_overwrite_with_parameters(heap, func, params, isig) ==
    LET opt == SelectSeq(params, optional)
        defaults == [i \in 1..Len(opt) |-> DefaultEntry(opt[i])]
    IN  _overwrite_defaults(heap, func, defaults, isig.params)

\* ------------------------------------------------------------------ _parse_parameters

KindError == <<"All parameters must be able to be used via keyword arguments.">>
TypeError(name) == <<"Invalid/no provided type for ", name>>
ConverterError(name) ==
    <<"The converter for ", name,
      " is invalid. Please make", " sure it is either a Converter-like class or a function.">>
OptionError(name) == <<"attrs.validate(option)", name>>
OrderError == <<"attrs.validate(self)", "Required options must go before optional options">>

Described == "described"

\* the option a parameter starts from: the marker's, or one built from the annotation
FirstOption(param) ==
    IF param.marker THEN [raised |-> NoError, option |-> generate_option(param)]
    ELSE IF ~OptionTypeResolves(param.anno)
         THEN [raised |-> TypeError(param.name),
               option |-> SlashCommandOption(param.name, NONE)]
         ELSE [raised |-> NoError,
               option |-> SlashCommandOption(param.name, get_option(param.anno))]

\* default and requiredness of one parameter (steps (a)-(c) of the precedence)
DefaultOf(param, option) ==
    LET first ==
            IF param.marker THEN [required |-> option.required, default |-> param.mdefault]
            ELSE IF param.pdefault # EMPTY
                 THEN [required |-> FALSE, default |-> param.pdefault]
                 ELSE [required |-> option.required, default |-> MISSING]
    IN  IF /\ first.default = MISSING
           /\ (~param.marker \/ ~param.utype)
           /\ is_optional(param.anno)
        THEN [required |-> FALSE, default |-> NONE]
        ELSE first

\* the converter of one parameter: the marker's, else the annotation's
ConverterOf(param) ==
    IF param.marker /\ param.mconv.shape # "none"
    THEN LET r == _get_converter(param.mconv, param.name)
         IN  IF r.raised # NoError THEN r
             ELSE IF r.value # NoConverter THEN r
             ELSE Raised(ConverterError(param.name))
    ELSE _get_converter(AnnotationConvRef(param.anno), param.name)

\* One pass of the loop body for a parameter that is not **kwargs: what it raised, and
\* the option and CommandParameter it built.
ParseParam(param, desc) ==
    LET first == FirstOption(param)
        o0 == first.option
        cmd_name == IF o0.name # NONE THEN o0.name ELSE param.name
        o1 == [o0 EXCEPT !.name = cmd_name,
                         !.description = IF cmd_name \in desc THEN Described ELSE @]
        typeFails == o1.type = NONE /\ ~OptionTypeResolves(param.anno)
        o2 == IF o1.type = NONE /\ ~typeFails
              THEN [o1 EXCEPT !.type = get_option(param.anno)] ELSE o1
        d == DefaultOf(param, o2)
        \* option.channel_types is only resolved for a CHANNEL option; the model has none
        o3 == [o2 EXCEPT !.required = d.required]
        conv == ConverterOf(param)
        cmd_param == [name |-> cmd_name, argument_name |-> param.name,
                      default |-> d.default, type |-> NONE, converter |-> conv.value]
        raised ==
            IF param.kind \notin {"POSITIONAL_OR_KEYWORD", "KEYWORD_ONLY"} THEN KindError
            ELSE IF first.raised # NoError THEN first.raised
            ELSE IF typeFails THEN TypeError(param.name)
            ELSE IF conv.raised # NoError THEN conv.raised
            ELSE IF ~OptionValid(o3) THEN OptionError(param.name)
            ELSE NoError
    IN  [raised |-> raised, option |-> o3, cmd_param |-> cmd_param]

\* the for loop over the signature, from parameter i on
RECURSIVE ParseLoop(_, _, _, _, _)
ParseLoop(s, i, opts, params, desc) ==
    IF i > Len(s) THEN [raised |-> NoError, options |-> opts, parameters |-> params]
    ELSE IF s[i].kind = "VAR_KEYWORD" THEN ParseLoop(s, i + 1, opts, params, desc)
    ELSE LET r == ParseParam(s[i], desc)
         IN  IF r.raised # NoError
             THEN [raised |-> r.raised, options |-> opts, parameters |-> params]
             ELSE ParseLoop(s, i + 1, Append(opts, r.option),
                            DictSet(params, r.cmd_param), desc)

\* a variant of OptionsInOrder: the aggregate validation left out
OptionsNotValidated(opts) == TRUE

\* attrs.validate(self): the host's options validator, value == sorted(value, key=required, reverse=True)
OptionsInOrder(opts) ==
    \A i, j \in 1..Len(opts) : i < j => ~(~opts[i].required /\ opts[j].required)

\* the state of the command after one _parse_parameters call, and what the call raised
Command(cb, heap, opts, params, isig, raised) ==
    [callback |-> cb, funcs |-> heap, options |-> opts, parameters |-> params,
     inspect_signature |-> isig, raised |-> raised]

\* a variant of Reparse: self.options = [] moved above the early exit
ReparseClearingOptions(cb, heap, opts, params, isig) ==
    LET w == _overwrite_with_parameters(heap, cb, params, isig)
    IN  Command(w.callback, w.funcs, <<>>, params, isig, NoError)

\* the early exit of an already-built command (parameters is non-empty)
Reparse(cb, heap, opts, params, isig) ==
    LET w == _overwrite_with_parameters(heap, cb, params, isig)
    IN  Command(w.callback, w.funcs, opts, params, isig, NoError)

\* the tail of _parse_parameters, after the loop
Finish(cb, heap, isig, loop) ==
    IF loop.raised # NoError
    THEN Command(cb, heap, loop.options, loop.parameters, isig, loop.raised)
    ELSE IF ~OptionsInOrder(loop.options)
    THEN Command(cb, heap, loop.options, loop.parameters, isig, OrderError)
    ELSE LET w == _overwrite_with_parameters(heap, cb, loop.parameters, isig)
         IN  Command(w.callback, w.funcs, loop.options, loop.parameters, isig, NoError)

_parse_parameters(cb, heap, opts, params, isig, s, desc) ==
    IF cb.kind = "none" THEN Command(cb, heap, opts, params, isig, NoError)
    ELSE IF params # <<>> THEN Reparse(cb, heap, opts, params, isig)
    ELSE LET newsig == IF ~isig.cached THEN [cached |-> TRUE, params |-> s] ELSE isig
         IN  Finish(cb, heap, newsig, ParseLoop(newsig.params, 1, <<>>, params, desc))

\* ------------------------------------------------------------------ callbacks of the model

Kinds == {"POSITIONAL_OR_KEYWORD", "KEYWORD_ONLY", "VAR_POSITIONAL", "VAR_KEYWORD"}

\* a parameter without a marker
Plain(kind, pdefault, anno) ==
    [kind |-> kind, marker |-> FALSE, mname |-> NONE, mdefault |-> MISSING,
     utype |-> FALSE, mconv |-> NoConvRef, pdefault |-> pdefault, anno |-> anno]

\* a parameter whose default is a marker (Option(...))
Marked(kind, mname, mdefault, utype, mconv, anno) ==
    [kind |-> kind, marker |-> TRUE, mname |-> mname, mdefault |-> mdefault,
     utype |-> utype, mconv |-> mconv, pdefault |-> EMPTY, anno |-> anno]

Named(shape, name) ==
    [name |-> name, kind |-> shape.kind, marker |-> shape.marker, mname |-> shape.mname,
     mdefault |-> shape.mdefault, utype |-> shape.utype, mconv |-> shape.mconv,
     pdefault |-> shape.pdefault, anno |-> shape.anno]

KindRank(kind) ==
    CASE kind = "POSITIONAL_OR_KEYWORD" -> 1
      [] kind = "VAR_POSITIONAL" -> 2
      [] kind = "KEYWORD_ONLY" -> 3
      [] kind = "VAR_KEYWORD" -> 4

\* what Python's grammar allows: positional parameters, *args, keyword-only parameters,
\* **kwargs, in that order; no positional parameter without a default after one with
SignatureAllowed(s) ==
    /\ \A i, j \in 1..Len(s) : i < j =>
          /\ KindRank(s[i].kind) <= KindRank(s[j].kind)
          /\ ~(s[i].kind = s[j].kind /\ s[i].kind \in {"VAR_POSITIONAL", "VAR_KEYWORD"})
          /\ (IsDefaultedPositional(s[i]) /\ IsPositional(s[j]) => IsDefaulted(s[j]))

\* the signatures of up to n parameters drawn from shapes, named a, b, c, ... in order
Signatures(shapes, n) ==
    {s \in UNION {[1..k -> shapes] : k \in 0..n} :
        SignatureAllowed(s)}

NameAll(s) == [i \in 1..Len(s) |-> Named(s[i], ParamNames[i])]

\* The callbacks of the introspection runs: every combination of marker, marker
\* default, user-supplied type, plain default and optional annotation on a positional
\* parameter, some of them keyword-only, a parameter whose annotation resolves to no
\* option type, *args and **kwargs.
CoreShapes ==
    {Plain("POSITIONAL_OR_KEYWORD", d, a) :
        d \in {EMPTY, "3", MISSING}, a \in {"int", "Optional[int]"}}
    \cup {Marked("POSITIONAL_OR_KEYWORD", NONE, d, u, NoConvRef, a) :
              d \in {MISSING, "5"}, u \in BOOLEAN, a \in {"int", "Optional[int]"}}
    \cup {Plain("KEYWORD_ONLY", d, "int") : d \in {EMPTY, "3"}}
    \cup {Marked("KEYWORD_ONLY", NONE, d, FALSE, NoConvRef, "int") : d \in {MISSING, "6"}}
    \cup {Plain("POSITIONAL_OR_KEYWORD", EMPTY, "unknown"),
          Plain("VAR_POSITIONAL", EMPTY, "unknown"),
          Plain("VAR_KEYWORD", EMPTY, "unknown")}

FunctionRef == [kind |-> "function", func |-> 1]
PartialRef == [kind |-> "partial", func |-> 1]
NoCallback == [kind |-> "none", func |-> 1]

NoSignature == [cached |-> FALSE, params |-> <<>>]

InitCommand(shapes, descs) ==
    /\ \E s \in Signatures(shapes, MaxParams) : sig = NameAll(s)
    /\ describes \in descs
    /\ callback \in (IF sig = <<>> THEN {FunctionRef, PartialRef, NoCallback}
                     ELSE {FunctionRef, PartialRef})
    /\ funcs = <<DefFunction(sig)>>
    /\ options = <<>>
    /\ parameters = <<>>
    /\ inspect_signature = NoSignature
    /\ results = <<>>
    /\ builtOptions = <<>>
    /\ builtParameters = <<>>
    /\ given = [called |-> FALSE, func |-> callback, before |-> funcs[1]]

\* ------------------------------------------------------------------ actions of the command

ParseParameters ==
    /\ Len(results) < MaxRuns
    /\ LET r == _parse_parameters(callback, funcs, options, parameters,
                                  inspect_signature, sig, describes)
       IN  /\ callback' = r.callback
           /\ funcs' = r.funcs
           /\ options' = r.options
           /\ parameters' = r.parameters
           /\ inspect_signature' = r.inspect_signature
           /\ results' = Append(results, r.raised)
           /\ builtOptions' = IF results = <<>> THEN r.options ELSE builtOptions
           /\ builtParameters' = IF results = <<>> THEN r.parameters ELSE builtParameters
           /\ given' = [called |-> (callback.kind # "none" /\ r.raised = NoError),
                        func |-> callback, before |-> funcs[FuncOf(callback)]]
    /\ UNCHANGED <<sig, describes, convVars, subVars, patchVars>>

\* ------------------------------------------------------------------ call_callback

\* the longest ctx.kwargs
MaxKwargs == 2
\* the longest signature of an invoked command
MaxInvokeParams == 2

Ctx == "ctx"

\* A value a callback can receive: the raw value arg as the host decoded it
\* (conv is NoConvRef), or what the converter conv returned for it; ctx is the context
\* the converter was given ("-": none); coro: a coroutine object that nobody awaited.
RawValue(v) == [conv |-> NoConvRef, ctx |-> "-", arg |-> v, coro |-> FALSE]

\* the positional arguments a converter reference accepts when it is called
AcceptsArgs(fn) == IF fn.shape = "bound_method" THEN fn.argc - 1 ELSE fn.argc

\* values the converters of the model cannot convert
Unconvertible == {"x"}

CallError(fn, n) == <<"TypeError", ObjectName(fn), "takes", "positional arguments">>
ConvertError(v) == <<"ValueError", "invalid literal for int()", v>>

Result(value) == [raised |-> NoError, value |-> value]
Failure(msg, v) == [raised |-> msg, value |-> RawValue(v)]

\* calling fn(*args) where args is <<value>> or <<ctx, value>>
CallFunction(fn, c, v, nargs) ==
    IF fn.shape # "converter_object" /\ AcceptsArgs(fn) # nargs
    THEN Failure(CallError(fn, nargs), v)
    ELSE IF v \in Unconvertible THEN Failure(ConvertError(v), v)
    ELSE Result([conv |-> fn, ctx |-> c, arg |-> v, coro |-> fn.async])

\* ipy.utils.maybe_coroutine: call, and await the result of a coroutine function
maybe_coroutine(fn, c, v, nargs) ==
    LET r == CallFunction(fn, c, v, nargs)
    IN  [r EXCEPT !.value.coro = FALSE]

\* a variant of _one_arg_convert: the context handed on to the wrapped function
OneArgConvertPassingCtx(fn, c, v) == maybe_coroutine(fn, c, v, 2)

\* _one_arg_convert(_, arg), the wrapper around a one-argument converter
_one_arg_convert(fn, c, v) == maybe_coroutine(fn, "-", v, 1)

\* await ipy.utils.maybe_coroutine(param.converter, ctx, value)
RunConverter(conv, c, v) ==
    CASE conv.kind = "_one_arg_convert" -> _one_arg_convert(conv.fn, c, v)
      [] conv.kind = "as_is" -> maybe_coroutine(conv.fn, c, v, 2)
      [] conv.kind = "convert_method" -> maybe_coroutine(conv.fn, c, v, 2)

\* new_kwargs[key] = value, for an unknown key
StoreUnknown(nk, key, v) == DictSet(nk, Entry(key, RawValue(v)))

\* a variant of StoreConverted: the option name as the key
StoreUnderOptionName(nk, param, converted) == DictSet(nk, Entry(param.name, converted))

\* new_kwargs[param.argument_name] = converted
StoreConverted(nk, param, converted) == DictSet(nk, Entry(param.argument_name, converted))

KwKeys == {"a", "b", "z", "k"}
KwValues == {"10", "x"}

KwargsSet ==
    {kw \in UNION {[1..n -> [name : KwKeys, value : KwValues]] : n \in 0..MaxKwargs} :
        \A i, j \in 1..Len(kw) : i # j => kw[i].name # kw[j].name}

\* call_callback up to its first await or its return
InvokeBegin ==
    /\ pc = "idle"
    /\ \E kw \in KwargsSet : kwargs' = kw
    /\ IF parameters = <<>>
       THEN /\ delivered' = [i \in 1..Len(kwargs') |->
                                Entry(kwargs'[i].name, RawValue(kwargs'[i].value))]
            /\ events' = Append(events, <<"callback">>)
            /\ pc' = "called"
            /\ UNCHANGED new_kwargs
       ELSE /\ new_kwargs' = <<>>
            /\ pc' = "loop"
            /\ UNCHANGED <<delivered, events>>
    /\ idx' = 1
    /\ UNCHANGED <<invokeRaised, cmdVars, convVars, subVars, patchVars>>

\* one pass of the for loop, up to the await of a converter
LoopStep ==
    /\ pc = "loop"
    /\ idx <= Len(kwargs)
    /\ LET key == kwargs[idx].name
           value == kwargs[idx].value
       IN  IF ~DictHas(parameters, key)
           THEN /\ new_kwargs' = StoreUnknown(new_kwargs, key, value)
                /\ idx' = idx + 1
                /\ UNCHANGED <<pc, events>>
           ELSE IF DictGet(parameters, key).converter # NoConverter
           THEN /\ pc' = "await"
                /\ events' = Append(events, <<"start", key>>)
                /\ UNCHANGED <<new_kwargs, idx>>
           ELSE /\ new_kwargs' = StoreConverted(new_kwargs, DictGet(parameters, key),
                                                RawValue(value))
                /\ idx' = idx + 1
                /\ UNCHANGED <<pc, events>>
    /\ UNCHANGED <<kwargs, delivered, invokeRaised, cmdVars, convVars, subVars, patchVars>>

\* a variant of AfterConverter: a converter's exception is caught and the raw value kept
AfterConverterSwallowing(nk, param, r) ==
    [pc |-> "loop", raised |-> NoError,
     new_kwargs |-> StoreConverted(nk, param, r.value),
     event |-> IF r.raised # NoError THEN "raise" ELSE "end"]

\* what call_callback does when the awaited converter is over: r is its outcome
AfterConverter(nk, param, r) ==
    IF r.raised # NoError
    THEN [pc |-> "raised", raised |-> r.raised, new_kwargs |-> nk, event |-> "raise"]
    ELSE [pc |-> "loop", raised |-> NoError,
          new_kwargs |-> StoreConverted(nk, param, r.value), event |-> "end"]

ConverterReturns ==
    /\ pc = "await"
    /\ LET key == kwargs[idx].name
           param == DictGet(parameters, key)
           a == AfterConverter(new_kwargs, param,
                               RunConverter(param.converter, Ctx, kwargs[idx].value))
       IN  /\ pc' = a.pc
           /\ invokeRaised' = a.raised
           /\ new_kwargs' = a.new_kwargs
           /\ events' = Append(events, <<a.event, key>>)
           /\ idx' = IF a.pc = "loop" THEN idx + 1 ELSE idx
    /\ UNCHANGED <<kwargs, delivered, cmdVars, convVars, subVars, patchVars>>

\* return await self.call_with_binding(callback, ctx, **new_kwargs)
LoopOver(position, kw) == position > Len(kw)

CallCallback ==
    /\ pc = "loop"
    /\ LoopOver(idx, kwargs)
    /\ delivered' = new_kwargs
    /\ events' = Append(events, <<"callback">>)
    /\ pc' = "called"
    /\ UNCHANGED <<kwargs, idx, new_kwargs, invokeRaised, cmdVars, convVars, subVars, patchVars>>

Function2 == [annotated |-> FALSE, shape |-> "function", argc |-> 2, async |-> FALSE]
AsyncFunction1 == [annotated |-> FALSE, shape |-> "function", argc |-> 1, async |-> TRUE]
ConverterObject == [annotated |-> FALSE, shape |-> "converter_object", argc |-> 3, async |-> TRUE]

InvokeShapes ==
    {Marked("POSITIONAL_OR_KEYWORD", n, MISSING, TRUE, c, "int") :
        n \in {NONE, "z"}, c \in {NoConvRef, Function2, AsyncFunction1, ConverterObject}}
    \cup {Plain("POSITIONAL_OR_KEYWORD", EMPTY, "int"), Plain("VAR_KEYWORD", EMPTY, "unknown")}


\* ------------------------------------------------------------------ using _get_converter

\* the most positional parameters a converter reference declares
MaxArgc == 3

Contexts == {"ctx", "ctx2"}

\* A builtin whose signature inspect cannot read is shape "opaque_builtin".
ConvInputs ==
    {c \in [annotated : BOOLEAN,
            shape : (ConvShapes \ {"none"}) \cup {"opaque_builtin"},
            argc : 0..MaxArgc, async : BOOLEAN] :
        /\ (c.shape = "bound_method" => c.argc >= 1)
        /\ (c.shape \in {"uncallable", "opaque_builtin", "converter_object"} =>
                c.argc = 0 /\ ~c.async)}

GetConverter ==
    /\ ~convDone
    /\ convDone' = TRUE
    /\ convOut' = _get_converter(convIn, convParam)
    /\ UNCHANGED <<convIn, convParam, callArgs, callOut, cmdVars, invokeVars, subVars, patchVars>>

\* the converter _get_converter returned is called as call_callback calls it
CallConverter ==
    /\ convDone
    /\ convOut.raised = NoError
    /\ convOut.value # NoConverter
    /\ callArgs = <<>>
    /\ \E c \in Contexts, v \in KwValues :
          /\ callArgs' = <<c, v>>
          /\ callOut' = RunConverter(convOut.value, c, v)
    /\ UNCHANGED <<convIn, convParam, convDone, convOut, cmdVars, invokeVars, subVars, patchVars>>

\* ------------------------------------------------------------------ subcommand

\* how many decorators subcommand() is asked for, and how many times one is applied
MaxDecorators == 2
MaxApplied == 2

NotCoroutine == <<"TypeError", "Subcommand must be coroutine">>

Callbacks == [async : BOOLEAN, doc : {NONE, "", "Doc A", "Doc B"}]

\* call.__doc__ or "No Description Set"
DocOrDefault(call) == IF call.doc \in {NONE, ""} THEN NoDescription ELSE call.doc

BaseCommand ==
    [name |-> "base", description |-> "Base description", group_name |-> NONE,
     group_description |-> NoDescription, sub_cmd_name |-> NONE,
     sub_cmd_description |-> NoDescription, checks |-> {"is_owner"},
     callback |-> NONE]

\* subcommand(...): the call only builds the closure wrapper
Subcommand ==
    /\ Len(decorators) < MaxDecorators
    /\ \E d \in {MISSING, "Given description"}, g \in {NONE, "grp"}, inherit \in BOOLEAN :
          decorators' = Append(decorators,
              [sub_cmd_name |-> "sub", group_name |-> g, inherit_checks |-> inherit,
               sub_cmd_description |-> d, given_description |-> d])
    /\ UNCHANGED <<base, made, cmdVars, invokeVars, convVars, patchVars>>

\* wrapper(call): the closure variables after the call, and what it returned or raised
wrapper(self, closure, call) ==
    IF ~call.async
    THEN [closure |-> closure, raised |-> NotCoroutine, command |-> self]
    ELSE LET sub_cmd_description ==
                 IF closure.sub_cmd_description = MISSING
                 THEN DocOrDefault(call) ELSE closure.sub_cmd_description
         IN  [closure |-> [closure EXCEPT !.sub_cmd_description = sub_cmd_description],
              raised |-> NoError,
              command |->
                  [name |-> self.name, description |-> self.description,
                   group_name |-> IF closure.group_name # NONE
                                  THEN closure.group_name ELSE self.group_name,
                   group_description |-> self.group_description,
                   sub_cmd_name |-> closure.sub_cmd_name,
                   sub_cmd_description |-> sub_cmd_description,
                   checks |-> IF closure.inherit_checks THEN self.checks ELSE {},
                   callback |-> call.doc]]

Apply ==
    /\ Len(made) < MaxApplied
    /\ \E d \in 1..Len(decorators), call \in Callbacks :
          LET r == wrapper(base, decorators[d], call)
          IN  /\ decorators' = [decorators EXCEPT ![d] = r.closure]
              /\ made' = Append(made, [decorator |-> d, call |-> call,
                                       raised |-> r.raised, command |-> r.command])
    /\ UNCHANGED <<base, cmdVars, invokeVars, convVars, patchVars>>

\* ------------------------------------------------------------------ orjson_serialize

\* how many HTTP clients are constructed
MaxClients == 3
\* how many times patch() is called
MaxPatchCalls == 2

NotInstalled == <<"ImportError", "orjson is not installed.">>

\* the attributes the class statement of ToBeOrJsonHTTP defines itself
ToBeOrJsonHTTP == [login |-> "ToBeOrJsonHTTP.login"]

\* the module-level OrJsonHTTP: the variant class, or None
OrJsonHTTP == IF orjsonImportable THEN "ToBeOrJsonHTTP" ELSE NONE

\* attribute lookup on a class: its own attributes first, then those of its base
ClassAttr(cls, attr) ==
    IF cls = "ToBeOrJsonHTTP" /\ attr \in DOMAIN ToBeOrJsonHTTP
    THEN ToBeOrJsonHTTP[attr]
    ELSE httpClientClass[attr]

\* patch(): what it raises, and HTTPClient's attributes after it
patch ==
    IF OrJsonHTTP = NONE
    THEN [raised |-> NotInstalled, class |-> httpClientClass]
    ELSE [raised |-> NoError,
          class |-> [httpClientClass EXCEPT !.init = ClassAttr(OrJsonHTTP, "init")]]

Patch ==
    /\ Len(patchCalls) < MaxPatchCalls
    /\ patchCalls' = Append(patchCalls, patch.raised)
    /\ httpClientClass' = patch.class
    /\ UNCHANGED <<orjsonImportable, clients, cmdVars, invokeVars, convVars, subVars>>

NewClient(cls) ==
    [class |-> cls, init |-> ClassAttr(cls, "init"), afterPatch |-> (NoError \in {patchCalls[i] : i \in 1..Len(patchCalls)}),
     loggedIn |-> FALSE, loginCalled |-> FALSE, json_serialize |-> "json.dumps"]

\* the host framework constructs its HTTP client: HTTPClient(...)
HostConstructs ==
    /\ Len(clients) < MaxClients
    /\ clients' = Append(clients, NewClient("HTTPClient"))
    /\ UNCHANGED <<orjsonImportable, httpClientClass, patchCalls, cmdVars, invokeVars, convVars, subVars>>

\* somebody constructs the variant itself: OrJsonHTTP(...)
VariantConstructed ==
    /\ Len(clients) < MaxClients
    /\ OrJsonHTTP # NONE
    /\ clients' = Append(clients, NewClient(OrJsonHTTP))
    /\ UNCHANGED <<orjsonImportable, httpClientClass, patchCalls, cmdVars, invokeVars, convVars, subVars>>

\* await client.login(token), by the login the client's class resolves
login(client) ==
    IF ClassAttr(client.class, "login") = "ToBeOrJsonHTTP.login"
    THEN \* super().login(token) is called and not awaited: the coroutine never runs
         [client EXCEPT !.loginCalled = TRUE, !.json_serialize = "orjson_dumps_handler"]
    ELSE [client EXCEPT !.loginCalled = TRUE, !.loggedIn = TRUE]

Login ==
    /\ \E i \in 1..Len(clients) :
          /\ ~clients[i].loginCalled
          /\ clients' = [clients EXCEPT ![i] = login(clients[i])]
    /\ UNCHANGED <<orjsonImportable, httpClientClass, patchCalls, cmdVars, invokeVars, convVars, subVars>>

\* ------------------------------------------------------------------ specifications

InitInvoke ==
    /\ kwargs = <<>>
    /\ pc = "idle"
    /\ idx = 1
    /\ new_kwargs = <<>>
    /\ events = <<>>
    /\ delivered = <<>>
    /\ invokeRaised = NoError

InitConv ==
    /\ convIn = NoConvRef
    /\ convParam = "a"
    /\ convDone = FALSE
    /\ convOut = Returned(NoConverter)
    /\ callArgs = <<>>
    /\ callOut = Result(RawValue("10"))

InitSub ==
    /\ base = BaseCommand
    /\ decorators = <<>>
    /\ made = <<>>

InitPatch ==
    /\ orjsonImportable = FALSE
    /\ httpClientClass = [init |-> "HTTPClient.__init__", login |-> "HTTPClient.login"]
    /\ patchCalls = <<>>
    /\ clients = <<>>

\* the command before it is introspected, when the callback is not what varies
InitPlainCommand ==
    /\ sig = <<>>
    /\ describes = {}
    /\ callback = FunctionRef
    /\ funcs = <<DefFunction(sig)>>
    /\ options = <<>>
    /\ parameters = <<>>
    /\ inspect_signature = NoSignature
    /\ results = <<>>
    /\ builtOptions = <<>>
    /\ builtParameters = <<>>
    /\ given = [called |-> FALSE, func |-> callback, before |-> funcs[1]]

\* introspection of a command: _parse_parameters, called up to MaxRuns times
Init ==
    /\ InitCommand(CoreShapes, {{"a"}})
    /\ InitInvoke /\ InitConv /\ InitSub /\ InitPatch

Next == ParseParameters /\ UNCHANGED invokeVars

Spec == Init /\ [][Next]_vars

\* dispatch of a command: call_callback on a command that may have been introspected

InitInvokeSpec ==
    /\ \E s \in Signatures(InvokeShapes, MaxInvokeParams) : sig = NameAll(s)
    /\ describes = {}
    /\ callback = FunctionRef
    /\ funcs = <<DefFunction(sig)>>
    /\ options = <<>>
    /\ parameters = <<>>
    /\ inspect_signature = NoSignature
    /\ results = <<>>
    /\ builtOptions = <<>>
    /\ builtParameters = <<>>
    /\ given = [called |-> FALSE, func |-> callback, before |-> funcs[1]]
    /\ InitInvoke /\ InitConv /\ InitSub /\ InitPatch

\* the command is introspected before it is dispatched, if at all
ParseThenInvoke == pc = "idle" /\ results = <<>> /\ ParseParameters /\ UNCHANGED invokeVars

NextInvoke ==
    \/ ParseThenInvoke
    \/ InvokeBegin
    \/ LoopStep
    \/ ConverterReturns
    \/ CallCallback

SpecInvoke == InitInvokeSpec /\ [][NextInvoke]_vars

\* converter adaptation: _get_converter on one reference, then one call of its result
InitConvSpec ==
    /\ convIn \in ConvInputs
    /\ convParam \in {"a", "b"}
    /\ convDone = FALSE
    /\ convOut = Returned(NoConverter)
    /\ callArgs = <<>>
    /\ callOut = Result(RawValue("10"))
    /\ InitPlainCommand /\ InitInvoke /\ InitSub /\ InitPatch

NextConv ==
    \/ GetConverter
    \/ CallConverter

SpecConv == InitConvSpec /\ [][NextConv]_vars

\* deriving subcommands from a base command
InitSubSpec == InitSub /\ InitPlainCommand /\ InitInvoke /\ InitConv /\ InitPatch

NextSub ==
    \/ Subcommand
    \/ Apply

SpecSub == InitSubSpec /\ [][NextSub]_vars

\* the transport patch
InitPatchSpec ==
    /\ orjsonImportable \in BOOLEAN
    /\ httpClientClass = [init |-> "HTTPClient.__init__", login |-> "HTTPClient.login"]
    /\ patchCalls = <<>>
    /\ clients = <<>>
    /\ InitPlainCommand /\ InitInvoke /\ InitConv /\ InitSub

NextPatch ==
    \/ Patch
    \/ HostConstructs
    \/ VariantConstructed
    \/ Login

SpecPatch == InitPatchSpec /\ [][NextPatch]_vars

\* introspection of callbacks whose markers give display names (Option(name=...)):
\* a name of its own, the name of another parameter, or none
NameShapes ==
    {Marked("POSITIONAL_OR_KEYWORD", n, d, FALSE, NoConvRef, "int") :
        n \in {NONE, "z", "b"}, d \in {MISSING, "5"}}
    \cup {Plain("POSITIONAL_OR_KEYWORD", d, "int") : d \in {EMPTY, "3"}}

InitNames ==
    /\ InitCommand(NameShapes, {{"a"}})
    /\ InitInvoke /\ InitConv /\ InitSub /\ InitPatch

SpecNames == InitNames /\ [][Next]_vars

\* ------------------------------------------------------------------ claims: introspection

FirstRunDone == results # <<>> /\ callback.kind # "none"
FirstRunOk == FirstRunDone /\ results[1] = NoError

\* C1: once the parameter table is built, any number of further _parse_parameters calls
\* leave the option list and the parameter mapping as the first call left them; a
\* later call returns normally and only re-applies the default overwrite.
C1_Idempotent ==
    FirstRunDone =>
        /\ options = builtOptions
        /\ parameters = builtParameters
        /\ inspect_signature = [cached |-> TRUE, params |-> sig]
        /\ builtParameters # <<>> => \A k \in 2..Len(results) : results[k] = NoError

C1_Witness ==
    /\ FirstRunOk
    /\ Len(results) >= 3
    /\ Len(builtParameters) >= 2
    /\ options = builtOptions

\* the sentences of C2: a parameter declared optional (a plain default or a marker
\* default), a parameter declared required (no default of either kind, and no
\* optional annotation standing in for one)
DeclaredOptional(p) ==
    \/ (~p.marker /\ p.pdefault # EMPTY)
    \/ (p.marker /\ p.mdefault # MISSING)

DeclaredRequired(p) ==
    /\ p.kind \in {"POSITIONAL_OR_KEYWORD", "KEYWORD_ONLY"}
    /\ \/ (~p.marker /\ p.pdefault = EMPTY /\ ~is_optional(p.anno))
       \/ (p.marker /\ p.mdefault = MISSING /\ (p.utype \/ ~is_optional(p.anno)))

OptionalBeforeRequired(s) ==
    \E i, j \in 1..Len(s) : i < j /\ DeclaredOptional(s[i]) /\ DeclaredRequired(s[j])

EachParamAccepted(s, desc) ==
    \A i \in 1..Len(s) : s[i].kind = "VAR_KEYWORD" \/ ParseParam(s[i], desc).raised = NoError

ResolvedName(p) == IF p.marker /\ p.mname # NONE THEN p.mname ELSE p.name

IsOptionParam(p) == p.kind # "VAR_KEYWORD"

\* the options are those of the first parameters of the signature, in its order
InSignatureOrder(opts, s) ==
    LET ps == SelectSeq(s, IsOptionParam)
    IN  /\ Len(opts) <= Len(ps)
        /\ \A i \in 1..Len(opts) : opts[i].name = ResolvedName(ps[i])

\* C2: introspecting a callback that declares an optional parameter before a required
\* one raises (the ordering validation error, unless a parameter was rejected on its
\* own before), and the options are left in signature order, never reordered.
C2_RejectsOptionalBeforeRequired ==
    (FirstRunDone /\ OptionalBeforeRequired(sig)) =>
        /\ results[1] # NoError
        /\ (EachParamAccepted(sig, describes) => results[1] = OrderError)
        /\ InSignatureOrder(builtOptions, sig)

C2_Witness ==
    /\ FirstRunDone
    /\ Len(sig) = 2
    /\ ~sig[1].marker /\ sig[1].pdefault = "3"
    /\ ~sig[2].marker /\ sig[2].pdefault = EMPTY /\ sig[2].kind = "KEYWORD_ONLY"
    /\ results[1] = OrderError
    /\ Len(builtOptions) = 2

\* C3 (as claimed): after a successful introspection, for every parameter, the
\* CommandParameter's default is MISSING if and only if its option is required.
C3_MissingIffRequired ==
    FirstRunOk =>
        \A i \in 1..Len(builtOptions) :
            (DictGet(builtParameters, builtOptions[i].name).default = MISSING)
                <=> builtOptions[i].required

\* C4 (as claimed): after a successful introspection the raw callback's intrinsic
\* defaults match the parameter table: an optional parameter's intrinsic default is its
\* CommandParameter default, a required parameter has none, and none is a marker object.
C4_DefaultsMatchTable ==
    FirstRunOk =>
        /\ \A i \in 1..Len(parameters) :
              IntrinsicDefault(funcs[FuncOf(callback)], sig, parameters[i].argument_name)
                  = (IF optional(parameters[i]) THEN parameters[i].default ELSE EMPTY)
        /\ \A i \in 1..Len(sig) :
              IntrinsicDefault(funcs[FuncOf(callback)], sig, sig[i].name) # PARAM_INFO

\* no parameter's plain default is the MISSING sentinel itself
NoSentinelDefault(s) == \A i \in 1..Len(s) : s[i].pdefault # MISSING

\* C10 (as claimed): _overwrite_defaults leaves the callable it was given unmodified:
\* after the call its function object has the positional and keyword-only defaults it
\* had before (stated for callbacks none of whose plain defaults is the sentinel).
C10_GivenCallableUnmodified ==
    (given.called /\ NoSentinelDefault(sig)) => funcs[FuncOf(given.func)] = given.before

\* ------------------------------------------------------------------ claims: call_callback

IsKnown(key) == DictHas(parameters, key)

\* the name an incoming argument reaches the callback under
TargetOf(key) == IF IsKnown(key) THEN DictGet(parameters, key).argument_name ELSE key

\* the value an incoming argument reaches the callback with
ExpectedValue(e) ==
    IF IsKnown(e.name) /\ DictGet(parameters, e.name).converter # NoConverter
    THEN RunConverter(DictGet(parameters, e.name).converter, Ctx, e.value).value
    ELSE RawValue(e.value)

Invoked == pc = "called" /\ parameters # <<>>

\* C5 (as claimed): with a non-empty parameter table every incoming argument is
\* delivered, a known key under its argument name with the converter's result, an
\* unknown key under its own name unchanged, none dropped or overwritten by another.
C5_EveryArgumentDelivered ==
    Invoked =>
        \A i \in 1..Len(kwargs) :
            /\ DictHas(delivered, TargetOf(kwargs[i].name))
            /\ DictGet(delivered, TargetOf(kwargs[i].name)).value = ExpectedValue(kwargs[i])

\* C5 (amended): every incoming argument is stored under its target name (the argument
\* name of a known key, the key itself when unknown) with the converter's result or the
\* raw value, and nothing else is delivered; two arguments share a target only when an
\* unknown key is the argument name of a supplied known option, and then the
\* one later in iteration order is the one delivered.
C5_DeliveredOrShadowed ==
    Invoked =>
        /\ \A i \in 1..Len(kwargs) :
              /\ DictHas(delivered, TargetOf(kwargs[i].name))
              /\ (\A j \in (i + 1)..Len(kwargs) :
                      TargetOf(kwargs[j].name) # TargetOf(kwargs[i].name))
                    => DictGet(delivered, TargetOf(kwargs[i].name)).value
                           = ExpectedValue(kwargs[i])
        /\ \A i, j \in 1..Len(kwargs) :
              (i # j /\ TargetOf(kwargs[i].name) = TargetOf(kwargs[j].name))
                  => (IsKnown(kwargs[i].name) # IsKnown(kwargs[j].name))
        /\ \A d \in 1..Len(delivered) :
              \E i \in 1..Len(kwargs) : TargetOf(kwargs[i].name) = delivered[d].name
        /\ \A d, e \in 1..Len(delivered) : d # e => delivered[d].name # delivered[e].name

\* option "z" is argument "a" with a two-argument converter; "z" and an unknown key arrive
C5_Witness ==
    /\ Invoked
    /\ Len(kwargs) = 2
    /\ kwargs[1] = Entry("z", "10") /\ kwargs[2].name = "k"
    /\ DictHas(parameters, "z")
    /\ DictGet(parameters, "z").argument_name = "a"
    /\ DictGet(parameters, "z").converter.kind = "as_is"
    /\ DictGet(delivered, "a").value =
           [conv |-> Function2, ctx |-> Ctx, arg |-> "10", coro |-> FALSE]
    /\ DictGet(delivered, "k").value = RawValue(kwargs[2].value)

HasConverter(e) == IsKnown(e.name) /\ DictGet(parameters, e.name).converter # NoConverter
IsStart(ev) == ev[1] = "start"
IsEnd(ev) == ev[1] = "end"

\* C6: in one invocation the converters run one at a time, in the iteration order of
\* ctx.kwargs; the callback is called only after every converter has returned; a
\* converter's exception is what call_callback raises, after it no converter runs
\* and the callback is not called.
C6_ConvertersBeforeCallback ==
    LET conv == SelectSeq(kwargs, HasConverter)
        started == SelectSeq(events, IsStart)
        ended == SelectSeq(events, IsEnd)
        last == Len(events)
    IN  /\ Len(started) <= Len(conv)
        /\ \A i \in 1..Len(started) : started[i][2] = conv[i].name
        /\ \A n \in 1..last :
              /\ events[n][1] = "start" =>
                    IF n = last THEN pc = "await"
                    ELSE events[n + 1] \in {<<"end", events[n][2]>>, <<"raise", events[n][2]>>}
              /\ events[n] = <<"callback">> =>
                    n = last /\ pc = "called" /\ Len(ended) = Len(conv)
              /\ events[n][1] = "raise" =>
                    /\ n = last /\ pc = "raised" /\ delivered = <<>>
                    /\ invokeRaised =
                          RunConverter(DictGet(parameters, events[n][2]).converter, Ctx,
                                       kwargs[idx].value).raised
                    /\ invokeRaised # NoError
        /\ pc = "raised" => (last > 0 /\ events[last][1] = "raise")
        /\ pc = "called" => (last > 0 /\ events[last] = <<"callback">>)

\* the first converter returned, the second raised
C6_Witness ==
    /\ pc = "raised"
    /\ Len(events) = 4
    /\ events[2][1] = "end"
    /\ events[4][1] = "raise"
    /\ invokeRaised = ConvertError("x")

\* ------------------------------------------------------------------ claims: _get_converter

Unwrapped == [convIn EXCEPT !.annotated = FALSE]

ByCount(anno, n) ==
    CASE n = 2 -> convOut = Returned([kind |-> "as_is", fn |-> anno])
      [] n = 1 -> convOut = Returned([kind |-> "_one_arg_convert", fn |-> anno])
      [] n = 0 -> convOut = Raised(<<ObjectName(anno), " for ", convParam, " has 0",
                                     " positional arguments, which is unsupported.">>)
      [] OTHER -> convOut = Raised(<<ObjectName(anno), " for ", convParam,
                                     " has more than 2",
                                     " positional arguments, which is unsupported.">>)

\* what calling fn on the value alone gives, awaited
OnValueAlone(fn, v) ==
    IF AcceptsArgs(fn) # 1 THEN Failure(CallError(fn, 1), v)
    ELSE IF v \in Unconvertible THEN Failure(ConvertError(v), v)
    ELSE Result([conv |-> fn, ctx |-> "-", arg |-> v, coro |-> FALSE])

WrapperIgnoresContext ==
    (callArgs # <<>> /\ convOut.value.kind = "_one_arg_convert")
        => callOut = OnValueAlone(Unwrapped, callArgs[2])

C9_OwnDocstringEveryTime ==
    /\ base = BaseCommand
    /\ \A m \in 1..Len(made) :
          IF made[m].call.async
          THEN /\ made[m].raised = NoError
               /\ decorators[made[m].decorator].given_description = MISSING
                     => made[m].command.sub_cmd_description = DocOrDefault(made[m].call)
          ELSE made[m].raised = NotCoroutine

\* ------------------------------------------------------------------ claims: patch

PatchSucceeded == \E i \in 1..Len(patchCalls) : patchCalls[i] = NoError

\* C7 (as claimed): with orjson importable, after patch() every HTTP client the host
\* constructs has the variant's login, which installs the orjson encoder; without it
\* patch() raises "orjson is not installed." and leaves HTTPClient unchanged.
C7_PatchSubstitutesVariant ==
    /\ orjsonImportable =>
          /\ \A i \in 1..Len(patchCalls) : patchCalls[i] = NoError
          /\ \A i \in 1..Len(clients) :
                (clients[i].afterPatch /\ clients[i].loginCalled)
                    => clients[i].json_serialize = "orjson_dumps_handler"
    /\ ~orjsonImportable =>
          /\ \A i \in 1..Len(patchCalls) : patchCalls[i] = NotInstalled
          /\ httpClientClass = [init |-> "HTTPClient.__init__", login |-> "HTTPClient.login"]

\* ------------------------------------------------------------------ claims: retried introspection

\* the _parse_parameters calls that raised
Failed(k) == results[k] # NoError

\* C11 (as claimed): once a _parse_parameters call has raised, every later call on the
\* same command raises again, the last of them without rewriting the callback's
\* defaults, and a call that returns normally leaves a non-empty parameter mapping only
\* if the mapping was validated in full when it was built.
C11_FailureNeverBecomesSuccess ==
    /\ \A k \in 1..Len(results) :
          Failed(k) => /\ \A j \in (k + 1)..Len(results) : Failed(j)
                       /\ (k < Len(results) => ~given.called)
    /\ (results # <<>> /\ results[Len(results)] = NoError /\ parameters # <<>>)
          => results[1] = NoError

\* ------------------------------------------------------------------ claims: options and parameters

\* C12 (as claimed): after a successful introspection the option list and the parameter
\* mapping correspond one to one: as many entries, in the order of the signature, each
\* option's name the key of the CommandParameter at its place, and each callback
\* parameter with a CommandParameter of its own, whatever display names markers give.
C12_OptionsMatchParameters ==
    FirstRunOk =>
        LET ps == SelectSeq(sig, IsOptionParam)
        IN  /\ Len(options) = Len(ps)
            /\ Len(parameters) = Len(options)
            /\ \A i \in 1..Len(parameters) :
                  /\ i <= Len(options) => parameters[i].name = options[i].name
                  /\ i <= Len(ps) => parameters[i].argument_name = ps[i].name

====
